---- MODULE Spec2Model ----
(***************************************************************************)
(* A model of scyllaft_orm: the query builder (query.py), the superseded   *)
(* stub builder (query_builder.py), the Table descriptor (table.py) and    *)
(* the ApplicationEnvironment singleton (metadata.py).                     *)
(*                                                                         *)
(* Python values are tagged records [py |-> <type name>, ...] so that the  *)
(* comparison of a str with a class is a comparison the model can make.    *)
(* A statement is a sequence of string pieces whose concatenation (Cat) is *)
(* the statement text; the only piece that can hold the character '?' is   *)
(* the piece "?" itself, so counting pieces equal to "?" counts the '?'    *)
(* characters of the text.                                                 *)
(***************************************************************************)
EXTENDS Integers, Sequences, FiniteSets, TLC

VARIABLES q, last, env_instances, env_heap, env_log, tables, dicts, tlast

qvars == <<q, last>>
envvars == <<env_instances, env_heap, env_log>>
tvars == <<tables, dicts, tlast>>
vars == <<q, last, env_instances, env_heap, env_log, tables, dicts, tlast>>

\* ---------------------------------------------------------------- bounds
\* the largest number of predicates given to one where() call
MaxArgs == 2
\* the largest number of columns given to Select() or to group_by()
MaxCols == 1
\* where() is not called once the WHERE list holds this many predicates
MaxWhere == 2
\* the stub where() is not called once its list holds this many entries
MaxStubWhere == 1

\* the number of ApplicationEnvironment calls a behaviour makes
MaxEnvCalls == 4
\* the number of Table descriptors (the original and its views) on the heap
MaxTables == 3

\* ---------------------------------------------------------------- values
PyNone == [py |-> "NoneType"]
PyInt(n) == [py |-> "int", v |-> n]
PyStr(s) == [py |-> "str", v |-> s]

\* Python's == between two values of the kinds the builder compares: values
\* of different types (a str and a class) are never equal.
PyEq(a, b) == a.py = b.py /\ a = b

\* str(v) as an f-string renders it
Format(x) == IF x.py = "int" THEN ToString(x.v) ELSE x.v

\* bool(x)
Truthy(x) ==
  CASE x.py = "NoneType" -> FALSE
    [] x.py = "str" -> x.v # ""
    [] x.py = "int" -> x.v # 0
    [] x.py = "method" -> TRUE
    [] OTHER -> TRUE

RECURSIVE Cat(_)
Cat(s) == IF s = <<>> THEN "" ELSE Head(s) \o Cat(Tail(s))

\* sep.join(parts), parts a sequence of sequences of pieces
RECURSIVE Join(_, _)
Join(sep, parts) ==
  IF parts = <<>> THEN <<>>
  ELSE IF Len(parts) = 1 THEN parts[1]
  ELSE parts[1] \o <<sep>> \o Join(sep, Tail(parts))

Tuples(S, n) == UNION {[1..k -> S] : k \in 0..n}

NoResult == [stmt |-> <<>>, params |-> <<>>]

\* what a call did: the exception it raised ("none" when it returned), the
\* statement and parameters it returned, the driver calls it made and the
\* value it returned from the driver
Outcome(op, args, raised, ret, calls, result) ==
  [op |-> op, args |-> args, raised |-> raised, ret |-> ret,
   calls |-> calls, result |-> result]

\* ------------------------------------------------------------- the inputs
\* Table classes as the builder reads them: __tablename__ and __keyspace__
TableClass(name, ks) == [py |-> "type", __tablename__ |-> name, __keyspace__ |-> ks]
Users == TableClass("users", "app")
Orders == TableClass("orders", "app")
TableClasses == {Users, Orders}

\* Column, AggregateExpr and ColumnExpr (module column) with the attributes
\* query.py reads; _table and _keyspace are the table name and the keyspace
\* as strings (query.py line 48 takes a column's _table as the str it renders
\* after FROM)
Column(t, ks, n, rename) ==
  [py |-> "Column", _table |-> PyStr(t), _keyspace |-> PyStr(ks), _name |-> n,
   rename |-> rename]
AggregateExpr(t, ks, n, op, rename) ==
  [py |-> "AggregateExpr", _table |-> PyStr(t), _keyspace |-> PyStr(ks),
   _name |-> n, operator |-> op, rename |-> rename]
ColumnExpr(t, ks, n, op, value) ==
  [py |-> "ColumnExpr", _table |-> PyStr(t), _keyspace |-> PyStr(ks),
   _name |-> n, operator |-> op, value |-> value]

Columns ==
  { Column("users", "app", "id", PyNone),
    Column("users", "app", "name", PyNone),
    Column("users", "shop", "id", PyNone) }

Aggregates == { AggregateExpr("users", "app", "id", "COUNT", PyStr("n")) }

Predicates ==
  { ColumnExpr("users", "app", "id", "=", PyInt(42)),
    ColumnExpr("users", "app", "name", ">", PyInt(7)),
    ColumnExpr("users", "shop", "id", "=", PyInt(7)) }

SetValues == { PyStr("Bob"), PyStr("?") }

Limits == {-5, 0, 1}

\* the driver's execute returns a result or raises
DriverOutcomes ==
  { [raised |-> "none", result |-> "rows"],
    [raised |-> "DriverError", result |-> "nothing"] }

\* ------------------------------------------------- query.py: class Select
\* an attribute of self that was never assigned cannot be read
HasAttr(self, name) == name \in DOMAIN self

\* one element of the list comprehension of Select.__init__ (lines 50-54):
\* "True", "False", or the exception that reading self._keyspace raises
SelectInitCheck(col, self) ==
  IF ~(col.py \in {"Column", "AggregateExpr"}) THEN "False"
  ELSE IF ~PyEq(col._table, self._table) THEN "False"
  ELSE IF ~HasAttr(self, "_keyspace") THEN "AttributeError"
  ELSE IF PyEq(col._keyspace, self._keyspace) THEN "True" ELSE "False"

\* all([...]) over the columns: the list is built first, left to right, so
\* the first element whose evaluation raises ends the call
SelectInitAll(columns, self) ==
  LET r == [i \in 1..Len(columns) |-> SelectInitCheck(columns[i], self)]
  IN IF \E i \in 1..Len(r) : r[i] = "AttributeError" THEN "AttributeError"
     ELSE IF \A i \in 1..Len(r) : r[i] = "True" THEN "True" ELSE "False"

\* the projection of one Column or AggregateExpr (lines 59-63)
RenderColumn(col) ==
  LET alias == IF col.rename.py # "NoneType" THEN " AS " \o col.rename.v ELSE ""
  IN IF col.py = "Column" THEN col._name \o alias
     ELSE col.operator \o "(" \o col._name \o ")" \o alias

\* the attributes every Select gets at the end of __init__ (lines 69-73)
SelectDefaults ==
  [_where |-> <<>>, _allow_filtering |-> FALSE, _limit |-> 0,
   _distinct |-> FALSE, _group_by |-> PyNone]

\* Select.__init__: the object built, or the exception raised
SelectNew(columns) ==
  IF Len(columns) = 0 THEN [raised |-> "AssertionError"]
  ELSE IF columns[1].py = "type" THEN
    [raised |-> "none",
     self |-> [kind |-> "Select",
               _table |-> PyStr(columns[1].__tablename__),
               _keyspace |-> PyStr(columns[1].__keyspace__),
               _select |-> "*", _columns |-> <<>>] @@ SelectDefaults]
  ELSE
    LET self0 == [kind |-> "Select", _table |-> columns[1]._table]
        ok == SelectInitAll(columns, self0)
    IN IF ok = "AttributeError" THEN [raised |-> "AttributeError"]
       ELSE IF ok = "False" THEN [raised |-> "AssertionError"]
       ELSE [raised |-> "none",
             self |-> self0 @@
               [_select |-> Cat(Join(", ", [i \in 1..Len(columns) |->
                                              <<RenderColumn(columns[i])>>])),
                _columns |-> columns] @@ SelectDefaults]

SelectArgs == TableClasses \cup Columns \cup Aggregates

\* a behaviour follows one Query object from its construction on
NoQuery == [kind |-> "none"]
QueryOnly == UNCHANGED <<envvars, tvars>>

SelectInit(columns) ==
  LET r == SelectNew(columns)
  IN /\ q = NoQuery
     /\ QueryOnly
     /\ q' = IF r.raised = "none" THEN r.self ELSE q
     /\ last' = Outcome("Select", columns, r.raised, NoResult, <<>>, "nothing")

\* the check shared by every where() and by group_by() of query.py: each
\* predicate's _table and _keyspace equal the query's
SameTable(self, predicates) ==
  \A i \in 1..Len(predicates) :
    /\ PyEq(predicates[i]._table, self._table)
    /\ PyEq(predicates[i]._keyspace, self._keyspace)

\* the body shared by the three where() of query.py
Where(self, predicates) ==
  IF Len(predicates) = 0 THEN [raised |-> "AssertionError", self |-> self]
  ELSE IF ~SameTable(self, predicates) THEN [raised |-> "AssertionError", self |-> self]
  ELSE [raised |-> "none",
        self |-> [self EXCEPT !._where = self._where \o predicates]]

SelectWhere(predicates) ==
  /\ q.kind = "Select"
  /\ QueryOnly
  /\ Len(q._where) < MaxWhere
  /\ LET r == Where(q, predicates)
     IN /\ q' = r.self
        /\ last' = Outcome("where", predicates, r.raised, NoResult, <<>>, "nothing")

GroupBy(self, columns) ==
  IF Len(columns) = 0 THEN [raised |-> "AssertionError", self |-> self]
  ELSE IF ~SameTable(self, columns) THEN [raised |-> "AssertionError", self |-> self]
  ELSE [raised |-> "none",
        self |-> [self EXCEPT !._group_by =
                    PyStr(Cat(Join(", ", [i \in 1..Len(columns) |->
                                            <<columns[i]._name>>])))]]

SelectGroupBy(columns) ==
  /\ q.kind = "Select"
  /\ QueryOnly
  /\ LET r == GroupBy(q, columns)
     IN /\ q' = r.self
        /\ last' = Outcome("group_by", columns, r.raised, NoResult, <<>>, "nothing")

SelectLimit(n) ==
  /\ q.kind = "Select"
  /\ QueryOnly
  /\ q' = IF n > 0 THEN [q EXCEPT !._limit = n] ELSE q
  /\ last' = Outcome("limit", <<PyInt(n)>>,
                     IF n > 0 THEN "none" ELSE "AssertionError", NoResult, <<>>, "nothing")

SelectDistinct ==
  /\ q.kind = "Select"
  /\ QueryOnly
  /\ q' = [q EXCEPT !._distinct = TRUE]
  /\ last' = Outcome("distinct", <<>>, "none", NoResult, <<>>, "nothing")

SelectAllowFiltering ==
  /\ q.kind = "Select"
  /\ QueryOnly
  /\ q' = [q EXCEPT !._allow_filtering = TRUE]
  /\ last' = Outcome("allow_filtering", <<>>, "none", NoResult, <<>>, "nothing")

\* the WHERE clause and the parameters, as the three build_query render them
WherePieces(where) ==
  Join(" AND ", [i \in 1..Len(where) |->
                   <<where[i]._name, " ", where[i].operator, " ", "?">>])
WhereParams(where) == [i \in 1..Len(where) |-> where[i].value]

\* self.distinct in Select.build_query (line 118) names the method distinct
\* of line 113, not the flag _distinct
SelectDistinctAttr(self) == [py |-> "method", name |-> "distinct"]

SelectBuildQuery(self) ==
  IF ~HasAttr(self, "_keyspace") THEN [raised |-> "AttributeError", ret |-> NoResult]
  ELSE
  LET q0 == <<"SELECT ", IF Truthy(SelectDistinctAttr(self)) THEN "DISTINCT" ELSE "",
              " ", self._select, " FROM ", self._keyspace.v, ".", self._table.v>>
      q1 == IF self._where # <<>>
            THEN q0 \o <<" WHERE ">> \o WherePieces(self._where) ELSE q0
      q2 == IF Truthy(self._group_by)
            THEN q1 \o <<" GROUP BY ", self._group_by.v>> ELSE q1
      q3 == IF self._limit # 0 THEN q2 \o <<" LIMIT ", ToString(self._limit)>> ELSE q2
      q4 == IF self._allow_filtering THEN q3 \o <<" ALLOW FILTERING">> ELSE q3
  IN [raised |-> "none",
      ret |-> [stmt |-> q4, params |-> WhereParams(self._where)]]

\* ------------------------------------------------- query.py: class Update
\* Update.__init__ keeps the Table class itself in _table (line 140)
UpdateNew(table) ==
  [kind |-> "Update", _table |-> table, _keyspace |-> PyStr(table.__keyspace__),
   _where |-> <<>>, _set_values |-> <<>>]

UpdateInit(table) ==
  /\ q = NoQuery
  /\ QueryOnly
  /\ q' = UpdateNew(table)
  /\ last' = Outcome("Update", <<table>>, "none", NoResult, <<>>, "nothing")

\* d[k] = v on a dict kept as a sequence of entries in insertion order: an
\* existing key keeps its place and takes the new value
DictSet(d, k, v) ==
  IF \E i \in 1..Len(d) : d[i].k = k
  THEN [i \in 1..Len(d) |-> IF d[i].k = k THEN [k |-> k, v |-> v] ELSE d[i]]
  ELSE Append(d, [k |-> k, v |-> v])

\* Update.set: no check of the column's table or keyspace
Set(self, column, value) ==
  [raised |-> "none",
   self |-> [self EXCEPT !._set_values = DictSet(self._set_values, column, value)]]

UpdateSet(column, value) ==
  /\ q.kind = "Update"
  /\ QueryOnly
  /\ LET r == Set(q, column, value)
     IN /\ q' = r.self
        /\ last' = Outcome("set", <<column, value>>, r.raised, NoResult, <<>>, "nothing")

UpdateWhere(predicates) ==
  /\ q.kind = "Update"
  /\ QueryOnly
  /\ Len(q._where) < MaxWhere
  /\ LET r == Where(q, predicates)
     IN /\ q' = r.self
        /\ last' = Outcome("where", predicates, r.raised, NoResult, <<>>, "nothing")

\* a build_query that renders without asking whether anything was set
UpdateBuildQueryNoCheck(self) ==
  LET set_values == Join(", ", [i \in 1..Len(self._set_values) |->
                     <<self._set_values[i].k._name, " = ",
                       Format(self._set_values[i].v)>>])
      q0 == <<"UPDATE ", self._keyspace.v, ".", self._table.__tablename__, " SET ">>
              \o set_values
      q1 == IF self._where # <<>>
            THEN q0 \o <<" WHERE ">> \o WherePieces(self._where) ELSE q0
  IN [raised |-> "none",
      ret |-> [stmt |-> q1, params |-> WhereParams(self._where)]]

UpdateBuildQuery(self) ==
  IF self._set_values = <<>> THEN [raised |-> "ValueError", ret |-> NoResult]
  ELSE
  LET set_values == Join(", ", [i \in 1..Len(self._set_values) |->
                     <<self._set_values[i].k._name, " = ",
                       Format(self._set_values[i].v)>>])
      q0 == <<"UPDATE ", self._keyspace.v, ".", self._table.__tablename__, " SET ">>
              \o set_values
      q1 == IF self._where # <<>>
            THEN q0 \o <<" WHERE ">> \o WherePieces(self._where) ELSE q0
  IN [raised |-> "none",
      ret |-> [stmt |-> q1, params |-> WhereParams(self._where)]]

\* ------------------------------------------------- query.py: class Delete
DeleteNew(table) ==
  [kind |-> "Delete", _table |-> table, _keyspace |-> PyStr(table.__keyspace__),
   _where |-> <<>>, _if_exists |-> FALSE]

DeleteInit(table) ==
  /\ q = NoQuery
  /\ QueryOnly
  /\ q' = DeleteNew(table)
  /\ last' = Outcome("Delete", <<table>>, "none", NoResult, <<>>, "nothing")

DeleteIfExists ==
  /\ q.kind = "Delete"
  /\ QueryOnly
  /\ q' = [q EXCEPT !._if_exists = TRUE]
  /\ last' = Outcome("if_exists", <<>>, "none", NoResult, <<>>, "nothing")

DeleteWhere(predicates) ==
  /\ q.kind = "Delete"
  /\ QueryOnly
  /\ Len(q._where) < MaxWhere
  /\ LET r == Where(q, predicates)
     IN /\ q' = r.self
        /\ last' = Outcome("where", predicates, r.raised, NoResult, <<>>, "nothing")

DeleteBuildQuery(self) ==
  LET q0 == <<"DELETE FROM ", self._keyspace.v, ".", self._table.__tablename__>>
      q1 == IF self._where # <<>>
            THEN q0 \o <<" WHERE ">> \o WherePieces(self._where) ELSE q0
      q2 == IF self._if_exists THEN q1 \o <<" IF EXISTS">> ELSE q1
  IN [raised |-> "none",
      ret |-> [stmt |-> q2, params |-> WhereParams(self._where)]]

\* -------------------------------------------------- query.py: class Query
\* build_query of the object's class
BuildQueryOf(self) ==
  CASE self.kind = "Select" -> SelectBuildQuery(self)
    [] self.kind = "Update" -> UpdateBuildQuery(self)
    [] self.kind = "Delete" -> DeleteBuildQuery(self)

Built == {"Select", "Update", "Delete"}

BuildQuery ==
  /\ q.kind \in Built
  /\ QueryOnly
  /\ LET r == BuildQueryOf(q)
     IN last' = Outcome("build_query", <<>>, r.raised, r.ret, <<>>, "nothing")
  /\ q' = q

\* an execute that calls the driver again when its call raised
QueryExecuteRetry(self, d) ==
  LET r == BuildQueryOf(self)
  IN IF r.raised # "none"
     THEN [raised |-> r.raised, calls |-> <<>>, result |-> "nothing"]
     ELSE IF d.raised # "none"
     THEN [raised |-> d.raised, calls |-> <<r.ret, r.ret>>, result |-> d.result]
     ELSE [raised |-> d.raised, calls |-> <<r.ret>>, result |-> d.result]

\* Query.execute with a driver whose execute ends as d says: build_query
\* first, then one awaited call whose result or exception is passed on
QueryExecute(self, d) ==
  LET r == BuildQueryOf(self)
  IN IF r.raised # "none"
     THEN [raised |-> r.raised, calls |-> <<>>, result |-> "nothing"]
     ELSE [raised |-> d.raised, calls |-> <<r.ret>>, result |-> d.result]

Execute(d) ==
  /\ q.kind \in Built
  /\ QueryOnly
  /\ LET r == QueryExecute(q, d)
     IN last' = Outcome("execute", <<d>>, r.raised, NoResult, r.calls, r.result)
  /\ q' = q

\* --------------------------------------- query_builder.py: class Delete
\* The stub Delete defines neither build_query nor execute, so the objects
\* are those of a subclass that does; __init__ and where are the stub's.
StubDeleteNew(table) ==
  [kind |-> "StubDelete", _table |-> table, _where |-> <<>>]

StubDeleteInit(table) ==
  /\ q = NoQuery
  /\ QueryOnly
  /\ q' = StubDeleteNew(table)
  /\ last' = Outcome("StubDelete", <<table>>, "none", NoResult, <<>>, "nothing")

\* the whole tuple of predicates is appended as one entry; nothing is checked
StubWhere(self, predicates) ==
  [raised |-> "none", self |-> [self EXCEPT !._where = Append(self._where, predicates)]]

StubDeleteWhere(predicates) ==
  /\ q.kind = "StubDelete"
  /\ QueryOnly
  /\ Len(q._where) < MaxStubWhere
  /\ LET r == StubWhere(q, predicates)
     IN /\ q' = r.self
        /\ last' = Outcome("where", predicates, r.raised, NoResult, <<>>, "nothing")

\* ----------------------------------------------------- the specification
QueryInit ==
  /\ q = NoQuery
  /\ last = Outcome("none", <<>>, "none", NoResult, <<>>, "nothing")

QueryNext ==
  \/ \E columns \in Tuples(SelectArgs, MaxCols) : SelectInit(columns)
  \/ \E predicates \in Tuples(Predicates, MaxArgs) : SelectWhere(predicates)
  \/ \E columns \in Tuples(Columns, MaxCols) : SelectGroupBy(columns)
  \/ \E n \in Limits : SelectLimit(n)
  \/ SelectDistinct
  \/ SelectAllowFiltering
  \/ \E table \in TableClasses : UpdateInit(table)
  \/ \E column \in Columns, value \in SetValues : UpdateSet(column, value)
  \/ \E predicates \in Tuples(Predicates, MaxArgs) : UpdateWhere(predicates)
  \/ \E table \in TableClasses : DeleteInit(table)
  \/ DeleteIfExists
  \/ \E predicates \in Tuples(Predicates, MaxArgs) : DeleteWhere(predicates)
  \/ BuildQuery
  \/ \E d \in DriverOutcomes : Execute(d)
  \/ \E table \in TableClasses : StubDeleteInit(table)
  \/ \E predicates \in Tuples(Predicates, MaxArgs) : StubDeleteWhere(predicates)

\* ------------------------------------- metadata.py: ApplicationEnvironment
Envs == {"dev", "staging", "prod"}

\* the class attributes an instance reads until it assigns its own
EnvClassAttrs == [modified |-> FALSE, env |-> "dev"]

\* SingletonMeta.__call__: ApplicationEnvironment() builds an instance only
\* while the class is not in _instances, and returns the registered one
SingletonCall(instances, heap) ==
  IF instances = <<>>
  THEN [instances |-> <<Len(heap) + 1>>, heap |-> Append(heap, EnvClassAttrs),
        obj |-> Len(heap) + 1]
  ELSE [instances |-> instances, heap |-> heap, obj |-> instances[1]]

\* a set_environment that keeps the value of the first call
SetEnvironmentOnce(self, env) ==
  IF self.modified THEN self ELSE [self EXCEPT !.modified = TRUE, !.env = env]

SetEnvironment(self, env) == [self EXCEPT !.modified = TRUE, !.env = env]

\* the value returned, and whether the warning was logged
GetEnvironment(self) == [ret |-> self.env, warned |-> ~self.modified]

EnvOnly == UNCHANGED <<qvars, tvars>>

\* ApplicationEnvironment().set_environment(env)
EnvSet(env) ==
  /\ Len(env_log) < MaxEnvCalls
  /\ EnvOnly
  /\ LET c == SingletonCall(env_instances, env_heap)
     IN /\ env_instances' = c.instances
        /\ env_heap' = [c.heap EXCEPT ![c.obj] = SetEnvironment(c.heap[c.obj], env)]
        /\ env_log' = Append(env_log, [op |-> "set", env |-> env, warned |-> FALSE])

\* ApplicationEnvironment().get_environment()
EnvGet ==
  /\ Len(env_log) < MaxEnvCalls
  /\ EnvOnly
  /\ LET c == SingletonCall(env_instances, env_heap)
         r == GetEnvironment(c.heap[c.obj])
     IN /\ env_instances' = c.instances
        /\ env_heap' = c.heap
        /\ env_log' = Append(env_log, [op |-> "get", env |-> r.ret, warned |-> r.warned])

EnvInit == env_instances = <<>> /\ env_heap = <<>> /\ env_log = <<>>

EnvNext ==
  \/ \E env \in Envs : EnvSet(env)
  \/ EnvGet

\* ------------------------------------------------------ table.py: Table
\* A descriptor holds its private attributes; _materialized_views is a
\* reference to a dict object of the heap dicts.
OriginalTable ==
  [_keyspace |-> "app", _table_name |-> "users", _materialized_views |-> 1,
   columns |-> <<"id", "email">>]
OriginalViews == [k \in {"by_email"} |-> <<"email">>]

ViewParams == {"by_email", "by_age"}

\* a copy that shares the dict object of the descriptor copied
ShallowCopy(tb, dc, self) ==
  [tables |-> Append(tb, tb[self]), dicts |-> dc, obj |-> Len(tb) + 1]

\* deepcopy(self): a new descriptor with a dict object of its own
DeepCopy(tb, dc, self) ==
  [tables |-> Append(tb, [tb[self] EXCEPT !._materialized_views = Len(dc) + 1]),
   dicts |-> Append(dc, dc[tb[self]._materialized_views]),
   obj |-> Len(tb) + 1]

\* Table.get_view(param) on descriptor self of the heap
GetView(tb, dc, self, param) ==
  IF param \notin DOMAIN dc[tb[self]._materialized_views]
  THEN [raised |-> "ValueError",
        msg |-> "Table " \o tb[self]._table_name
                  \o " does not have a view associated with " \o param \o ".",
        tables |-> tb, dicts |-> dc, ret |-> 0]
  ELSE LET c == DeepCopy(tb, dc, self)
       IN [raised |-> "none", msg |-> "",
           tables |-> [c.tables EXCEPT ![c.obj]._table_name =
                          tb[self]._table_name \o "_" \o param],
           dicts |-> c.dicts, ret |-> c.obj]

TableOnly == UNCHANGED <<qvars, envvars>>

TableGetView(self, param) ==
  /\ Len(tables) < MaxTables
  /\ TableOnly
  /\ LET r == GetView(tables, dicts, self, param)
     IN /\ tables' = r.tables
        /\ dicts' = r.dicts
        /\ tlast' = [op |-> "get_view", self |-> self, param |-> param,
                     raised |-> r.raised, msg |-> r.msg, ret |-> r.ret]

\* the caller changes a view it was given: view._materialized_views[key] = cols
ViewSetItem(self, key, cols) ==
  /\ self > 1
  /\ TableOnly
  /\ tables' = tables
  /\ dicts' = [dicts EXCEPT ![tables[self]._materialized_views] =
                 [k \in DOMAIN @ \cup {key} |-> IF k = key THEN cols ELSE @[k]]]
  /\ tlast' = [op |-> "setitem", self |-> self, param |-> key,
               raised |-> "none", msg |-> "", ret |-> 0]

\* the caller changes a view it was given: del view._materialized_views[key]
ViewDelItem(self, key) ==
  /\ self > 1
  /\ key \in DOMAIN dicts[tables[self]._materialized_views]
  /\ TableOnly
  /\ tables' = tables
  /\ dicts' = [dicts EXCEPT ![tables[self]._materialized_views] =
                 [k \in DOMAIN @ \ {key} |-> @[k]]]
  /\ tlast' = [op |-> "delitem", self |-> self, param |-> key,
               raised |-> "none", msg |-> "", ret |-> 0]

TableInit ==
  /\ tables = <<OriginalTable>>
  /\ dicts = <<OriginalViews>>
  /\ tlast = [op |-> "none", self |-> 0, param |-> "", raised |-> "none",
              msg |-> "", ret |-> 0]

TableNext ==
  \/ \E self \in 1..Len(tables), param \in ViewParams : TableGetView(self, param)
  \/ \E self \in 1..Len(tables) : ViewSetItem(self, "by_age", <<"id">>)
  \/ \E self \in 1..Len(tables), key \in ViewParams : ViewDelItem(self, key)

\* --------------------------------------------------- the specifications
Init == QueryInit /\ EnvInit /\ TableInit

Next == QueryNext

Spec == Init /\ [][Next]_vars

EnvSpec == Init /\ [][EnvNext]_vars

TableSpec == Init /\ [][TableNext]_vars

\* ------------------------------------------------------------- the claims
\* the table name and keyspace a query was constructed for
TargetName(self) ==
  IF self.kind = "Select" THEN self._table.v ELSE self._table.__tablename__
TargetKeyspace(self) == self._keyspace.v
InTarget(x, self) ==
  x._table.v = TargetName(self) /\ x._keyspace.v = TargetKeyspace(self)

\* the places of the '?' characters of a statement, and the i-th of them
Placeholders(stmt) == {j \in 1..Len(stmt) : stmt[j] = "?"}
Placeholder(stmt, i) ==
  CHOOSE j \in Placeholders(stmt) :
    Cardinality({k \in Placeholders(stmt) : k < j}) = i - 1

P_id == ColumnExpr("users", "app", "id", "=", PyInt(42))
C_name == Column("users", "app", "name", PyNone)

\* C1: whenever build_query() of a Select, Update or Delete returns, the
\* statement holds exactly as many '?' as predicates were added by where(),
\* the parameter list has that many entries, the i-th parameter is the value
\* of the i-th predicate added, and the i-th '?' follows that predicate's
\* column and operator.
C1_PlaceholdersMatchParameters ==
  q.kind \in Built =>
    LET r == BuildQueryOf(q)
        n == Len(q._where)
    IN r.raised = "none" =>
         /\ Cardinality(Placeholders(r.ret.stmt)) = n
         /\ Len(r.ret.params) = n
         /\ \A i \in 1..n :
              /\ r.ret.params[i] = q._where[i].value
              /\ LET j == Placeholder(r.ret.stmt, i)
                 IN /\ j > 4
                    /\ r.ret.stmt[j - 4] = q._where[i]._name
                    /\ r.ret.stmt[j - 2] = q._where[i].operator

\* C2: a call that brings a column or predicate of another table or keyspace
\* into a query raises: Select(), Select.where, Select.group_by,
\* Update.where, Update.set and Delete.where.
C2_ForeignColumnRejected ==
  /\ (last.op = "Select" /\ last.args # <<>> /\ last.args[1].py # "type"
        /\ \E i \in 1..Len(last.args) :
             /\ last.args[i].py # "type"
             /\ \/ last.args[i]._table # last.args[1]._table
                \/ last.args[i]._keyspace # last.args[1]._keyspace)
       => last.raised # "none"
  /\ (q.kind \in Built /\ last.op \in {"where", "group_by"}
        /\ \E i \in 1..Len(last.args) : ~InTarget(last.args[i], q))
       => last.raised # "none"
  /\ (q.kind \in Built /\ last.op = "set" /\ ~InTarget(last.args[1], q))
       => last.raised # "none"

\* C3: on an Update or Delete, where() with predicates of the query's own
\* table and keyspace returns, and build_query() then renders them:
\* Delete(Users).where(Users.id.eq(42)).if_exists() gives
\* 'DELETE FROM app.users WHERE id = ? IF EXISTS' with [42];
\* Update(Users).set(Users.name, "Bob").where(Users.id.eq(42)) gives a
\* statement with 'SET name = Bob' that ends with 'WHERE id = ?', with [42].
C3_WhereOnUpdateAndDelete ==
  /\ (q.kind \in {"Update", "Delete"} /\ last.op = "where" /\ last.args # <<>>
        /\ \A i \in 1..Len(last.args) : InTarget(last.args[i], q))
       => /\ last.raised = "none"
          /\ Len(q._where) >= Len(last.args)
          /\ SubSeq(q._where, Len(q._where) - Len(last.args) + 1, Len(q._where))
               = last.args
  /\ (q.kind = "Delete" /\ q._table = Users /\ q._where = <<P_id>> /\ q._if_exists)
       => /\ Cat(BuildQueryOf(q).ret.stmt) = "DELETE FROM app.users WHERE id = ? IF EXISTS"
          /\ BuildQueryOf(q).ret.params = <<PyInt(42)>>
  /\ (q.kind = "Update" /\ q._table = Users /\ q._where = <<P_id>>
        /\ q._set_values = <<[k |-> C_name, v |-> PyStr("Bob")]>>)
       => /\ Cat(BuildQueryOf(q).ret.stmt) = "UPDATE app.users SET name = Bob WHERE id = ?"
          /\ BuildQueryOf(q).ret.params = <<PyInt(42)>>

\* C4: the statement of a Select has DISTINCT right after SELECT exactly when
\* distinct() was called on it; Select(Users).where(Users.id.eq(42)).limit(1)
\* renders 'SELECT  * FROM app.users WHERE id = ? LIMIT 1' with [42].
C4_DistinctIffCalled ==
  q.kind = "Select" =>
    LET r == BuildQueryOf(q)
    IN /\ r.raised = "none"
       /\ (r.ret.stmt[2] = "DISTINCT") <=> q._distinct
       /\ (q._table.v = "users" /\ q._keyspace.v = "app" /\ q._select = "*"
             /\ q._where = <<P_id>> /\ q._limit = 1 /\ ~q._distinct
             /\ ~q._allow_filtering /\ q._group_by = PyNone)
            => /\ Cat(r.ret.stmt) = "SELECT  * FROM app.users WHERE id = ? LIMIT 1"
               /\ r.ret.params = <<PyInt(42)>>

\* C5: Select() given one or more Column or AggregateExpr references of one
\* table and keyspace returns a Select of that table and keyspace whose
\* statement projects those references in order, comma-joined.
C5_SelectFromColumns ==
  (last.op = "Select" /\ last.args # <<>>
     /\ \A i \in 1..Len(last.args) :
          /\ last.args[i].py \in {"Column", "AggregateExpr"}
          /\ last.args[i]._table = last.args[1]._table
          /\ last.args[i]._keyspace = last.args[1]._keyspace)
    => /\ last.raised = "none"
       /\ q.kind = "Select"
       /\ q._table = last.args[1]._table
       /\ HasAttr(q, "_keyspace")
       /\ q._keyspace = last.args[1]._keyspace
       /\ q._select = Cat(Join(", ", [i \in 1..Len(last.args) |->
                                        <<RenderColumn(last.args[i])>>]))

\* C6: execute(driver) makes one call to the driver's execute, with the
\* statement and parameters build_query() returns for the query as it is,
\* and ends as that call ends: it returns the driver's result, or raises the
\* driver's error without a second call. When build_query() raises, that
\* error is raised and the driver is not called.
C6_ExecuteCallsDriverOnce ==
  last.op = "execute" =>
    LET b == BuildQueryOf(q)
        d == last.args[1]
    IN IF b.raised # "none"
       THEN last.calls = <<>> /\ last.raised = b.raised
       ELSE /\ Len(last.calls) = 1
            /\ last.calls[1] = b.ret
            /\ last.raised = d.raised
            /\ last.result = d.result

C6_Witness ==
  /\ last.op = "execute"
  /\ last.raised = "DriverError"
  /\ Len(last.calls) = 1
  /\ Len(last.calls[1].params) = 2

\* C7: an Update on which set() was never called has no statement:
\* build_query() raises ValueError, and execute() raises it with no call to
\* the driver, whatever where() calls were made before.
C7_UpdateWithoutSet ==
  (q.kind = "Update" /\ q._set_values = <<>>) =>
    /\ BuildQueryOf(q).raised = "ValueError"
    /\ BuildQueryOf(q).ret = NoResult
    /\ last.op = "build_query" => (last.raised = "ValueError" /\ last.ret = NoResult)
    /\ last.op = "execute" => (last.raised = "ValueError" /\ last.calls = <<>>)

C7_Witness ==
  /\ q.kind = "Update" /\ q._set_values = <<>>
  /\ last.op = "execute" /\ last.args[1].raised = "none"

Sets(i) == {j \in 1..(i - 1) : env_log[j].op = "set"}
First(S) == CHOOSE j \in S : \A k \in S : j <= k
Latest(S) == CHOOSE j \in S : \A k \in S : j >= k

\* C9 as stated: every get_environment() returns the value of the first
\* set_environment() call made before it, and 'dev' with a warning while
\* there was none.
C9_FirstSetWins ==
  \A i \in 1..Len(env_log) :
    env_log[i].op = "get" =>
      IF Sets(i) = {}
      THEN env_log[i].env = "dev" /\ env_log[i].warned
      ELSE env_log[i].env = env_log[First(Sets(i))].env

\* C9 as amended: every get_environment() returns the value of the latest
\* set_environment() call made before it, without a warning, and 'dev' with
\* a warning while there was none.
C9_LatestSetWins ==
  \A i \in 1..Len(env_log) :
    env_log[i].op = "get" =>
      IF Sets(i) = {}
      THEN env_log[i].env = "dev" /\ env_log[i].warned
      ELSE env_log[i].env = env_log[Latest(Sets(i))].env /\ ~env_log[i].warned

C9_Witness ==
  /\ Len(env_log) >= 4
  /\ env_log[1].op = "get"
  /\ env_log[2].op = "set" /\ env_log[3].op = "set"
  /\ env_log[2].env # env_log[3].env
  /\ env_log[4].op = "get"

\* a descriptor together with the dict its _materialized_views names
Content(tb, dc, i) == [t |-> tb[i], views |-> dc[tb[i]._materialized_views]]

\* C10: get_view(key) with a key of the view mapping returns a new descriptor
\* named '<name>_<key>' with the keyspace, columns and views of the one it
\* was called on, and changes no descriptor that existed; with another key it
\* raises ValueError naming the table and the key and changes nothing; and a
\* later change to a view changes no other descriptor.
C10_GetView ==
  [][/\ tlast'.op = "get_view" =>
          LET s == tlast'.self
              p == tlast'.param
          IN IF p \in DOMAIN dicts[tables[s]._materialized_views]
             THEN /\ tlast'.raised = "none"
                  /\ tlast'.ret = Len(tables) + 1
                  /\ Len(tables') = Len(tables) + 1
                  /\ tables'[tlast'.ret]._table_name = tables[s]._table_name \o "_" \o p
                  /\ tables'[tlast'.ret]._keyspace = tables[s]._keyspace
                  /\ tables'[tlast'.ret].columns = tables[s].columns
                  /\ Content(tables', dicts', tlast'.ret).views = Content(tables, dicts, s).views
                  /\ \A i \in 1..Len(tables) :
                       Content(tables', dicts', i) = Content(tables, dicts, i)
             ELSE /\ tlast'.raised = "ValueError"
                  /\ tlast'.msg = "Table " \o tables[s]._table_name
                       \o " does not have a view associated with " \o p \o "."
                  /\ tables' = tables /\ dicts' = dicts
     /\ tlast'.op \in {"setitem", "delitem"} =>
          \A i \in 1..Len(tables) \ {tlast'.self} :
            Content(tables', dicts', i) = Content(tables, dicts, i)]_vars

C10_Witness ==
  /\ Len(tables) = 3
  /\ tlast.op = "get_view" /\ tlast.raised = "none" /\ tlast.self = 1
  /\ tables[3]._table_name = "users_by_email"
  /\ dicts[tables[2]._materialized_views] # OriginalViews
  /\ Content(tables, dicts, 1) = [t |-> OriginalTable, views |-> OriginalViews]

====
